---- MODULE Spec2Model ----
(***************************************************************************)
(* A model of csv_to_pdf.py: the batch converter that turns every input    *)
(* dataset into one full (matrix) report and one individual record per     *)
(* row.  Texts are sequences of one-character strings, so that lower(),    *)
(* strip(), substring search, the regular expression of clean_particulars  *)
(* and the escaping of get_wrapped_text are computed, not assumed.         *)
(***************************************************************************)
EXTENDS Integers, Sequences, FiniteSets, TLC

VARIABLES
    clean,          \* harness of clean_particulars: [text, once, twice]
    layout,         \* harness of the matrix layout planner: [data, plan]
    pc,             \* where main() and convert_file_to_pdf() are
    nfiles,         \* len(files): the input files that glob found
    fi,             \* the file of the loop of main(), 1..nfiles
    df,             \* the DataFrame read from that file
    keys,           \* col_name, col_venue, col_date, col_signature, col_mobile, naming_cols
    ri,             \* the row of the loop over df.iterrows(), 1..len(df)
    dl,             \* download_signature_from_gdrive: [attempt, tmp_path, log]
    observer_info,  \* the footer data of the row
    tmpfs,          \* the temporary files that exist (tempfile.mkstemp)
    docs,           \* the paths of the documents written so far
    calls,          \* the individual generate_pdf_report calls of the file
    lastDoc,        \* what the last generate_pdf_report call was given and did
    err             \* the exception that left main(), or "none"

harnessVars == <<clean, layout>>

progVars ==
    <<pc, nfiles, fi, df, keys, ri, dl, observer_info, tmpfs, docs, calls, lastDoc, err>>

vars == <<clean, layout, pc, nfiles, fi, df, keys, ri, dl, observer_info, tmpfs, docs,
          calls, lastDoc, err>>

\* A value that is not there yet (Python's None).
None == <<"None">>

\* The state of a harness that the running specification does not use.
Idle == [idle |-> TRUE]

\* The program's variables in a specification that only applies one function.
ProgIdle ==
    /\ pc = "idle"
    /\ nfiles = 0
    /\ fi = 0
    /\ df = Idle
    /\ keys = Idle
    /\ ri = 0
    /\ dl = Idle
    /\ observer_info = Idle
    /\ tmpfs = {}
    /\ docs = {}
    /\ calls = <<>>
    /\ lastDoc = Idle
    /\ err = "none"

-----------------------------------------------------------------------------
(* Texts *)

RECURSIVE SeqsUpTo(_, _)
\* Every sequence over S of length at most n.
SeqsUpTo(S, n) ==
    IF n = 0 THEN {<<>>}
    ELSE LET shorter == SeqsUpTo(S, n - 1)
         IN  shorter \cup {Append(s, c) : s \in {t \in shorter : Len(t) = n - 1}, c \in S}

Digits == {"0", "1", "2", "3", "4", "5", "6", "7", "8", "9"}

\* \d of the regular expression (re, str patterns).
IsDigit(c) == c \in Digits

\* \s of the regular expression, and the characters str.strip() removes.
IsSpace(c) == c \in {" ", "\n", "\t"}

\* The class [\s.)-] of the pattern of clean_particulars.
IsMarkerPunct(c) == IsSpace(c) \/ c \in {".", ")", "-"}

RECURSIVE DropWhileDigit(_)
DropWhileDigit(s) ==
    IF s # <<>> /\ IsDigit(Head(s)) THEN DropWhileDigit(Tail(s)) ELSE s

RECURSIVE DropWhileMarkerPunct(_)
DropWhileMarkerPunct(s) ==
    IF s # <<>> /\ IsMarkerPunct(Head(s)) THEN DropWhileMarkerPunct(Tail(s)) ELSE s

RECURSIVE LStrip(_)
LStrip(s) == IF s # <<>> /\ IsSpace(Head(s)) THEN LStrip(Tail(s)) ELSE s

RECURSIVE RStrip(_)
RStrip(s) ==
    IF s # <<>> /\ IsSpace(s[Len(s)]) THEN RStrip(SubSeq(s, 1, Len(s) - 1)) ELSE s

\* str.strip()
Strip(s) == RStrip(LStrip(s))

\* re.sub(r'^\d+[\s.)-]*', '', s): the greedy match at the start is removed;
\* without a leading digit nothing matches.
SubLeadingNumber(s) ==
    IF s # <<>> /\ IsDigit(Head(s))
    THEN DropWhileMarkerPunct(DropWhileDigit(s))
    ELSE s

\* The slip '\d*' for '\d+': the punctuation is removed without any digit.
clean_particulars_star(text) == Strip(DropWhileMarkerPunct(DropWhileDigit(text)))

clean_particulars(text) == Strip(SubLeadingNumber(text))

-----------------------------------------------------------------------------
(* The harness of clean_particulars *)

MaxTextLen == 4

CleanAlphabet == {"1", ".", " ", "a"}

CleanInit ==
    /\ clean \in {[text |-> t, once |-> None, twice |-> None] :
                     t \in SeqsUpTo(CleanAlphabet, MaxTextLen)}
    /\ layout = Idle
    /\ ProgIdle

CleanOnce ==
    /\ clean.once = None
    /\ clean' = [clean EXCEPT !.once = clean_particulars(clean.text)]
    /\ UNCHANGED <<layout, progVars>>

CleanTwice ==
    /\ clean.once # None
    /\ clean.twice = None
    /\ clean' = [clean EXCEPT !.twice = clean_particulars(clean.once)]
    /\ UNCHANGED <<layout, progVars>>

CleanNext == CleanOnce \/ CleanTwice

SpecClean == CleanInit /\ [][CleanNext]_vars

\* The text begins with a numeric marker: one or more digits followed by
\* punctuation or space.
BeginsWithMarker(s) ==
    /\ s # <<>>
    /\ IsDigit(Head(s))
    /\ LET rest == DropWhileDigit(s) IN rest # <<>> /\ IsMarkerPunct(Head(rest))

BeginsWithDigit(s) == s # <<>> /\ IsDigit(Head(s))

HasOuterSpace(s) == s # <<>> /\ (IsSpace(Head(s)) \/ IsSpace(s[Len(s)]))

\* C5 as stated: stripping twice equals stripping once, and every text that does
\* not begin with a numeric marker (digits followed by punctuation or space) is
\* returned unchanged.
C5_Original ==
    /\ clean.twice # None => clean.twice = clean.once
    /\ (clean.once # None /\ ~BeginsWithMarker(clean.text)) => clean.once = clean.text

\* C5 amended: stripping twice equals stripping once exactly when the stripped
\* text does not itself begin with a digit, and a text is returned unchanged
\* exactly when it begins with no digit and has no leading or trailing whitespace.
C5_Amended ==
    /\ clean.twice # None =>
          ((clean.twice = clean.once) <=> ~BeginsWithDigit(clean.once))
    /\ clean.once # None =>
          ((clean.once = clean.text) <=>
              (~BeginsWithDigit(clean.text) /\ ~HasOuterSpace(clean.text)))

\* "1. 2a"-like input: a marker was stripped, the result begins with a digit again
\* and the second pass strips further.
C5_Witness ==
    /\ clean.twice # None
    /\ clean.once # clean.text
    /\ clean.twice # clean.once

-----------------------------------------------------------------------------
(* The layout planner of the full (matrix) report *)

\* Exact fractions n/d with d > 0: the widths are floats in the program, and the
\* model computes them without rounding.
Frac(n, d) == [n |-> n, d |-> d]

FracAdd(a, b) ==
    IF a.d = b.d THEN Frac(a.n + b.n, a.d) ELSE Frac(a.n * b.d + b.n * a.d, a.d * b.d)

FracLess(a, b) == a.n * b.d < b.n * a.d

FracEq(a, b) == a.n * b.d = b.n * a.d

RECURSIVE FracSum(_)
\* sum(col_widths)
FracSum(ws) == IF ws = <<>> THEN Frac(0, 1) ELSE FracAdd(Head(ws), FracSum(Tail(ws)))

Max(a, b) == IF a >= b THEN a ELSE b

\* min_width=50, the default of calculate_col_widths
MinWidth == 50

\* max_char * 6
CharWidth == 6

\* page_width - 80: the left and right margins
Margins == 80

\* 8.5 * inch and 11 * inch, with inch = 72 points
LetterWidth == 612

LetterHeight == 792

\* len(data) * 30 + 400
RowHeight == 30

HeightBase == 400

\* The longest text of column i: the inner loop over the rows, which skips the
\* rows that have no cell i.  A cell is kept as the length of its text,
\* len(str(row[i])), the only thing the planner reads.
MaxChar(data, i) ==
    LET lens == {data[r][i] : r \in {q \in 1..Len(data) : i <= Len(data[q])}}
    IN  IF lens = {} THEN 0 ELSE CHOOSE m \in lens : \A l \in lens : l <= m

\* The estimate of one column.
EstimateWidth(data, i) == Max(MaxChar(data, i) * CharWidth, MinWidth)

\* The slip of sharing the slack over one column too many.
SlackShare_off(slack, num_cols) == Frac(slack, num_cols + 1)

\* extra = (available_width - total_est) / num_cols
SlackShare(slack, num_cols) == Frac(slack, num_cols)

\* calculate_col_widths(data, page_width): the widths, or the exception it raises.
calculate_col_widths(data, page_width) ==
    IF data = <<>> THEN [err |-> "IndexError", widths |-> <<>>]
    ELSE
      LET available_width == page_width - Margins
          num_cols == Len(data[1])
          est == [i \in 1..num_cols |-> EstimateWidth(data, i)]
          total_est == FracSum([i \in 1..num_cols |-> Frac(est[i], 1)]).n
      IN  IF total_est < available_width
          THEN IF num_cols = 0
               THEN [err |-> "ZeroDivisionError", widths |-> <<>>]
               ELSE LET extra == SlackShare(available_width - total_est, num_cols)
                    IN  [err |-> "none",
                         widths |-> [i \in 1..num_cols |-> FracAdd(Frac(est[i], 1), extra)]]
          ELSE [err |-> "none", widths |-> [i \in 1..num_cols |-> Frac(est[i], 1)]]

\* The matrix branch of generate_pdf_report: the widths and the page size the
\* document is built with, or the exception that its except clause reports.
MatrixGeometry(data) ==
    LET cw == calculate_col_widths(data, LetterWidth)
        total_w == FracAdd(FracSum(cw.widths), Frac(Margins, 1))
        est_height == Len(data) * RowHeight + HeightBase
    IN  IF cw.err # "none"
        THEN [err |-> cw.err, col_widths |-> <<>>,
              page_width |-> Frac(LetterWidth, 1), page_height |-> LetterHeight]
        ELSE [err |-> "none",
              col_widths |-> cw.widths,
              page_width |-> IF FracLess(Frac(LetterWidth, 1), total_w)
                             THEN total_w ELSE Frac(LetterWidth, 1),
              page_height |-> Max(est_height, LetterHeight)]

\* The plan of a table that is not planned yet.
NoPlan == [err |-> "pending"]

MaxCols == 3

MaxRows == 2

\* The text lengths the cells are drawn from: 1 (below the minimum width) and 70
\* (one such column and two short ones leave slack, two such columns overflow
\* the page).
CellLens == {1, 70}

\* Rectangular tables, as convert_file_to_pdf builds them.
RectTables ==
    UNION {UNION {[1..r -> [1..c -> CellLens]] : c \in 0..MaxCols} : r \in 0..MaxRows}

\* The same tables with the last cell of the last row missing.
RaggedTables ==
    {[t EXCEPT ![Len(t)] = SubSeq(t[Len(t)], 1, Len(t[Len(t)]) - 1)] :
        t \in {u \in RectTables : Len(u) >= 2 /\ Len(u[1]) >= 1}}

LayoutInit ==
    /\ layout \in {[data |-> t, plan |-> NoPlan] : t \in RectTables \cup RaggedTables}
    /\ clean = Idle
    /\ ProgIdle

PlanMatrix ==
    /\ layout.plan = NoPlan
    /\ layout' = [layout EXCEPT !.plan = MatrixGeometry(layout.data)]
    /\ UNCHANGED <<clean, progVars>>

LayoutNext == PlanMatrix

SpecLayout == LayoutInit /\ [][LayoutNext]_vars

Planned == layout.plan # NoPlan

NumCols == IF layout.data = <<>> THEN 0 ELSE Len(layout.data[1])

NaiveTotal ==
    FracSum([i \in 1..NumCols |-> Frac(EstimateWidth(layout.data, i), 1)]).n

C10_Original ==
    (Planned /\ NumCols = 0) =>
        /\ layout.plan.err = "none"
        /\ FracEq(layout.plan.page_width, Frac(LetterWidth, 1))
        /\ layout.plan.page_height = LetterHeight


-----------------------------------------------------------------------------
(* Texts: the string operations the converter uses *)

UpperLetters ==
    <<"A", "B", "C", "D", "E", "F", "G", "H", "I", "J", "K", "L", "M",
      "N", "O", "P", "Q", "R", "S", "T", "U", "V", "W", "X", "Y", "Z">>

LowerLetters ==
    <<"a", "b", "c", "d", "e", "f", "g", "h", "i", "j", "k", "l", "m",
      "n", "o", "p", "q", "r", "s", "t", "u", "v", "w", "x", "y", "z">>

LowerChar(c) ==
    IF \E i \in 1..26 : UpperLetters[i] = c
    THEN LowerLetters[CHOOSE i \in 1..26 : UpperLetters[i] = c]
    ELSE c

\* str.lower()
Lower(s) == [i \in 1..Len(s) |-> LowerChar(s[i])]

\* str.startswith(p)
StartsWith(s, p) == Len(p) <= Len(s) /\ SubSeq(s, 1, Len(p)) = p

\* k in s, for two strings
Contains(k, s) ==
    \E i \in 1..(Len(s) - Len(k) + 1) : SubSeq(s, i, i + Len(k) - 1) = k

RECURSIVE ReplaceChar(_, _, _)
\* str.replace(c, r) for a one-character c
ReplaceChar(s, c, r) ==
    IF s = <<>> THEN <<>>
    ELSE (IF Head(s) = c THEN r ELSE <<Head(s)>>) \o ReplaceChar(Tail(s), c, r)

RECURSIVE RemoveChars(_, _)
\* re.sub of a character class by ''
RemoveChars(s, class) ==
    IF s = <<>> THEN <<>>
    ELSE (IF Head(s) \in class THEN <<>> ELSE <<Head(s)>>) \o RemoveChars(Tail(s), class)

RECURSIVE Join(_, _)
\* sep.join(parts)
Join(sep, parts) ==
    IF parts = <<>> THEN <<>>
    ELSE IF Len(parts) = 1 THEN parts[1]
    ELSE parts[1] \o sep \o Join(sep, Tail(parts))

DigitSeq == <<"0", "1", "2", "3", "4", "5", "6", "7", "8", "9">>

\* str(n) for the numbers of the model, all below 10
StrOfInt(n) == <<DigitSeq[n + 1]>>

NanText == <<"n", "a", "n">>

\* s.lower() == 'nan'
IsNan(s) == Lower(s) = NanText

\* The characters sanitize_filename removes: \ / * ? : " < > |
UnsafeFileChars == {"\\", "/", "*", "?", ":", "\"", "<", ">", "|"}

sanitize_filename(name) == ReplaceChar(RemoveChars(name, UnsafeFileChars), " ", <<"_">>)

\* get_wrapped_text: the markup of the Paragraph, '&' replaced first, then '<',
\* '>' and the line break.
get_wrapped_text(text) ==
    ReplaceChar(
      ReplaceChar(
        ReplaceChar(
          ReplaceChar(text, "&", <<"&", "a", "m", "p", ";">>),
          "<", <<"&", "l", "t", ";">>),
        ">", <<"&", "g", "t", ";">>),
      "\n", <<"<", "b", "r", "/", ">">>)


-----------------------------------------------------------------------------
(* convert_file_to_pdf: the columns of the DataFrame *)

\* A DataFrame as pandas returns it: the column labels, and per row the str() of
\* every value (a missing value is the float NaN, whose str() is "nan").
\* strLabels: every column label is a str (read_excel keeps a numeric header
\* cell as a number).  intIndex: the index is the default RangeIndex (read_csv
\* takes the first column as the index when the rows have one field more than the
\* header).
Frame(cols, rows, strLabels, intIndex) ==
    [readable |-> TRUE, columns |-> cols, rows |-> rows,
     strLabels |-> strLabels, intIndex |-> intIndex]

\* A file that read_csv or read_excel cannot read.
Unreadable ==
    [readable |-> FALSE, columns |-> <<>>, rows |-> <<>>,
     strLabels |-> TRUE, intIndex |-> TRUE]

RECURSIVE ColsMapFrom(_, _)
\* The dict comprehension {c.lower().strip(): c for c in schemas}: a key keeps the
\* place of its first column and the value of its last.
ColsMapFrom(schemas, acc) ==
    IF schemas = <<>> THEN acc
    ELSE LET c == Head(schemas)
             k == Strip(Lower(c))
             at == {i \in 1..Len(acc) : acc[i].key = k}
         IN  ColsMapFrom(Tail(schemas),
                 IF at = {} THEN Append(acc, [key |-> k, col |-> c])
                 ELSE [acc EXCEPT ![CHOOSE i \in at : TRUE].col = c])

cols_map(schemas) == ColsMapFrom(schemas, <<>>)

\* find_key(keywords): the keywords in order, and for each the keys of cols_map in
\* order; None when nothing matches.
find_key(keywords, cmap) ==
    LET hits == {h \in (1..Len(keywords)) \X (1..Len(cmap)) :
                    Contains(keywords[h[1]], cmap[h[2]].key)}
    IN  IF hits = {} THEN None
        ELSE LET first == CHOOSE h \in hits :
                             \A g \in hits : h[1] < g[1] \/ (h[1] = g[1] /\ h[2] <= g[2])
             IN  cmap[first[2]].col

NameKeywords == <<<<"n", "a", "m", "e", " ", ":">>, <<"c", "a", "n", "d", "i", "d", "a", "t", "e", " ", "n", "a", "m", "e">>, <<"n", "a", "m", "e", " ", "o", "f", " ", "c", "a", "n", "d", "i", "d", "a", "t", "e">>, <<"n", "a", "m", "e">>>>

VenueKeywords == <<<<"n", "a", "m", "e", " ", "o", "f", " ", "e", "x", "a", "m", " ", "v", "e", "n", "u", "e">>, <<"v", "e", "n", "u", "e">>, <<"c", "e", "n", "t", "e", "r">>>>

DateKeywords == <<<<"t", "i", "m", "e", "s", "t", "a", "m", "p">>, <<"d", "a", "t", "e">>>>

SignatureKeywords == <<<<"s", "i", "g", "n", "a", "t", "u", "r", "e">>, <<"u", "p", "l", "o", "a", "d", " ", "s", "i", "g", "n", "a", "t", "u", "r", "e">>, <<"o", "b", "s", "e", "r", "v", "e", "r", " ", "s", "i", "g", "n", "a", "t", "u", "r", "e">>>>

MobileKeywords == <<<<"m", "o", "b", "i", "l", "e">>, <<"p", "h", "o", "n", "e">>, <<"c", "o", "n", "t", "a", "c", "t">>>>

NamingWords == {<<"n", "a", "m", "e">>, <<"c", "a", "n", "d", "i", "d", "a", "t", "e">>, <<"i", "d">>}

IsNamingCol(col) == \E x \in NamingWords : Contains(x, Lower(col))

\* naming_cols
naming_cols(columns) == SelectSeq(columns, IsNamingCol)

\* Lines 427-443: the footer columns and the naming columns of the file.
FindKeys(columns) ==
    LET cmap == cols_map(columns)
    IN  [col_name |-> find_key(NameKeywords, cmap),
         col_venue |-> find_key(VenueKeywords, cmap),
         col_date |-> find_key(DateKeywords, cmap),
         col_signature |-> find_key(SignatureKeywords, cmap),
         col_mobile |-> find_key(MobileKeywords, cmap),
         naming_cols |-> naming_cols(columns)]

\* str(row[col]): the labels of a DataFrame are distinct.
Value(frame, r, col) ==
    frame.rows[r][CHOOSE i \in 1..Len(frame.columns) : frame.columns[i] = col]

\* str(row[col]) if col else ""
ValueOrEmpty(frame, r, col) == IF col = None THEN <<>> ELSE Value(frame, r, col)

\* Lines 448-457: the footer values of the row and the signature reference.
FooterValues(frame, r, k) ==
    LET footer_mobile == ValueOrEmpty(frame, r, k.col_mobile)
    IN  [name |-> ValueOrEmpty(frame, r, k.col_name),
         venue |-> ValueOrEmpty(frame, r, k.col_venue),
         date |-> ValueOrEmpty(frame, r, k.col_date),
         mobile |-> IF IsNan(footer_mobile) THEN <<>> ELSE footer_mobile]

\* str(sig_url) inside download_signature_from_gdrive: str(None) is "None".
SigUrlText(frame, r, k) ==
    IF k.col_signature = None THEN <<"N", "o", "n", "e">> ELSE Value(frame, r, k.col_signature)

CertifyPhrase == <<"I", " ", "h", "e", "r", "e", "b", "y", " ", "c", "e", "r", "t", "i", "f", "y">>

FooterCols(k) == {k.col_name, k.col_venue, k.col_date, k.col_signature, k.col_mobile}

\* The response of one schema: "nan" is blanked, the certification question always
\* shows "Yes".
ResponseOf(frame, r, schema) ==
    LET val == Value(frame, r, schema)
    IN  IF Contains(CertifyPhrase, clean_particulars(schema)) THEN <<"Y", "e", "s">>
        ELSE IF IsNan(val) THEN <<>>
        ELSE val

RECURSIVE TableRows(_, _, _, _, _)
\* Lines 471-491: the loop over the schemas, which skips the footer columns.
TableRows(frame, r, k, schemas, counter) ==
    IF schemas = <<>> THEN <<>>
    ELSE LET schema == Head(schemas)
         IN  IF schema \in FooterCols(k)
             THEN TableRows(frame, r, k, Tail(schemas), counter)
             ELSE <<[sl |-> StrOfInt(counter),
                     particular |-> get_wrapped_text(clean_particulars(schema)),
                     response |-> get_wrapped_text(ResponseOf(frame, r, schema))]>>
                  \o TableRows(frame, r, k, Tail(schemas), counter + 1)

\* table_data of the individual record, without its constant header row.
TableData(frame, r, k) == TableRows(frame, r, k, frame.columns, 1)

\* name_parts: the values of the first two naming columns.
NameParts(frame, r, k) ==
    LET cols == SubSeq(k.naming_cols, 1, IF Len(k.naming_cols) < 2 THEN Len(k.naming_cols) ELSE 2)
    IN  [i \in 1..Len(cols) |-> Value(frame, r, cols[i])]

\* not name_parts or all(not p or p.lower() == 'nan' for p in name_parts)
NeedsRecordName(frame, r, k) ==
    LET parts == NameParts(frame, r, k)
    IN  \A i \in 1..Len(parts) : parts[i] = <<>> \/ IsNan(parts[i])

\* name_no_ext of file f
FileStem(f) == <<"f">> \o StrOfInt(f)

\* final_pdf_name: idx + 1 is the row number under the default index.
FinalPdfName(frame, r, k, f) ==
    LET name_parts == IF NeedsRecordName(frame, r, k)
                      THEN <<<<"R", "e", "c", "o", "r", "d", "_">> \o StrOfInt(r)>>
                      ELSE NameParts(frame, r, k)
    IN  sanitize_filename(Join(<<"_">>, name_parts)) \o <<"_">> \o FileStem(f) \o <<".", "p", "d", "f">>

\* out_path of the individual record
RecordPath(frame, r, k, f) ==
    [folder |-> "Individual_Records", stem |-> FileStem(f), name |-> FinalPdfName(frame, r, k, f)]

\* full_output_path
FullReportPath(f) ==
    [folder |-> "Full_Reports", stem |-> FileStem(f), name |-> FileStem(f) \o <<"_", "F", "U", "L", "L", "_", "R", "E", "P", "O", "R", "T", ".", "p", "d", "f">>]

\* matrix_table: the header, then one row per column of the DataFrame with the
\* values of all the records, as astype(str) gives them.
MatrixTable(frame) ==
    <<(<<<<"S", "l", ".", " ", "N", "o", ".">>, <<"P", "a", "r", "t", "i", "c", "u", "l", "a", "r", "s">>>> \o [i \in 1..Len(frame.rows) |-> <<"R", "e", "c", " ">> \o StrOfInt(i)])>>
    \o [c \in 1..Len(frame.columns) |->
          <<StrOfInt(c), clean_particulars(frame.columns[c])>>
          \o [i \in 1..Len(frame.rows) |-> frame.rows[i][c]]]

\* len(str(cell)) of every cell: what calculate_col_widths reads of the table.
CellLengths(table) == [r \in 1..Len(table) |-> [c \in 1..Len(table[r]) |-> Len(table[r][c])]]


-----------------------------------------------------------------------------
(* download_signature_from_gdrive *)

HttpPrefix == <<"h", "t", "t", "p">>

\* [a-zA-Z0-9_-]
IsIdChar(c) ==
    \/ \E i \in 1..26 : c = UpperLetters[i] \/ c = LowerLetters[i]
    \/ IsDigit(c)
    \/ c \in {"_", "-"}

\* The alternatives of the pattern that finds the file id.
IdMarkers == {<<"i", "d", "=">>, <<"d", "/">>, <<"f", "i", "l", "e", "/", "d", "/">>, <<"o", "p", "e", "n", "?", "i", "d", "=">>}

\* re.search(r'(?:id=|[d]/|file/d/|open\?id=)([a-zA-Z0-9_-]+)', url) finds a match.
HasFileId(url) ==
    \E m \in IdMarkers : \E i \in 1..Len(url) :
        /\ i + Len(m) <= Len(url)
        /\ SubSeq(url, i, i + Len(m) - 1) = m
        /\ IsIdChar(url[i + Len(m)])

\* Lines 40-50: the references for which nothing is requested.
NoRequest(raw) ==
    LET url == Strip(raw)
    IN  url = <<>> \/ IsNan(url) \/ ~StartsWith(url, HttpPrefix) \/ ~HasFileId(url)

\* len(download_urls)
NumVariants == 3

\* The first bytes of a response body, as numbers.
JpegMagic == <<255, 216>>

PngMagic == <<137, 80, 78, 71>>

Gif87Magic == <<71, 73, 70, 56, 55, 97>>

Gif89Magic == <<71, 73, 70, 56, 57, 97>>

\* The slip of testing only the first byte of each signature.
IsValidImage_loose(content) ==
    content # <<>> /\ content[1] \in {JpegMagic[1], PngMagic[1], Gif87Magic[1]}

\* Lines 80-81: the body starts with a JPEG, PNG or GIF signature.
IsValidImage(content) ==
    \/ StartsWith(content, JpegMagic)
    \/ StartsWith(content, PngMagic)
    \/ StartsWith(content, Gif87Magic)
    \/ StartsWith(content, Gif89Magic)

\* The bodies a request may return: a JPEG, a PNG, a GIF89a, a GIF87a, an HTML
\* page, and a body that only begins like an image (GIF88a).
Bodies ==
    {<<255, 216, 255, 224>>, <<137, 80, 78, 71, 13>>, <<71, 73, 70, 56, 57, 97, 1>>,
     <<71, 73, 70, 56, 55, 97, 1>>, <<60, 104, 116, 109, 108>>,
     <<71, 73, 70, 56, 56, 97>>}

\* What one urlopen(...).read() does: it raises (timeout, network or HTTP
\* error), or returns a body that holds a 'confirm=<token>' or not (the
\* confirmation page; any body may hold these bytes).
Raised == [raised |-> TRUE, bytes |-> <<>>, confirm |-> FALSE]

Requests == {Raised} \cup [raised : {FALSE}, bytes : Bodies, confirm : BOOLEAN]

\* Lines 67-77: the body the validity test reads, or the exception that ends the
\* attempt.  A body with a confirmation token is replaced by the body of the
\* confirmed request.
AttemptEnd(first, second) ==
    IF first.raised THEN Raised
    ELSE IF first.confirm THEN [second EXCEPT !.confirm = FALSE]
    ELSE [first EXCEPT !.confirm = FALSE]

AttemptTags == <<"jpg1", "jpg2", "jpg3">>

\* The file tempfile.mkstemp creates for attempt n of the row, and its content.
TempFile(f, r, tag, bytes) == [file |-> f, row |-> r, tag |-> tag, bytes |-> bytes]

\* tmp_path and signature_path when there is no file (Python's None).
NoPath == [file |-> 0, row |-> 0, tag |-> "none", bytes |-> <<>>]

NoDownload == [attempt |-> 0, tmp_path |-> NoPath, log |-> <<>>]

-----------------------------------------------------------------------------
(* create_footer_flowables *)

\* get_underlined_para(text, style, min_width_chars): the text and the number of
\* non-breaking spaces that pad it.
get_underlined_para(text, min_width_chars) ==
    [text |-> text, padding |-> Max(0, min_width_chars - Len(text))]

\* min_width_chars of the four footer lines
FooterWidthChars == 35

\* The signature line without an image: an underline of padding only.
BlankUnderline == get_underlined_para(<<>>, FooterWidthChars)

\* The signature line with the converted image: the <img> tag of new_sig_path,
\* longer than the minimum width.
ImageUnderline(png) == [img |-> png, padding |-> 0]

\* What PIL does with the downloaded file: it converts it, or Image.open raises,
\* or img.save raises after mkstemp created the file.
PilOutcomes == {"converted", "open_raises", "save_raises"}

\* The signature line of the footer (lines 207-221 and 236).
SignatureLine(sig_path, pil, png) ==
    IF sig_path # NoPath /\ pil = "converted" THEN ImageUnderline(png) ELSE BlankUnderline

\* The footer of the individual record.
Footer(info, pil, png) ==
    [signature |-> SignatureLine(info.signature_path, pil, png),
     name |-> get_underlined_para(info.name, FooterWidthChars),
     mobile |-> get_underlined_para(info.mobile, FooterWidthChars),
     venue |-> get_underlined_para(info.venue, FooterWidthChars),
     date |-> info.date]


-----------------------------------------------------------------------------
(* main, convert_file_to_pdf and generate_pdf_report *)

MaxFiles == 2

MaxFrameRows == 2

MaxSigRows == 1

NoDoc == [kind |-> "none"]

NoKeys == [col_name |-> None, col_venue |-> None, col_date |-> None,
           col_signature |-> None, col_mobile |-> None, naming_cols |-> <<>>]

NoInfo == [name |-> <<>>, venue |-> <<>>, date |-> <<>>, mobile |-> <<>>,
           signature_path |-> NoPath]

NoFrame == Unreadable

\* The state when main() is entered: glob found nfiles files, and nothing was
\* read or written yet.
ProgInit(n) ==
    /\ pc = "main"
    /\ nfiles \in 0..n
    /\ fi = 0
    /\ df = NoFrame
    /\ keys = NoKeys
    /\ ri = 0
    /\ dl = NoDownload
    /\ observer_info = NoInfo
    /\ tmpfs = {}
    /\ docs = {}
    /\ calls = <<>>
    /\ lastDoc = NoDoc
    /\ err = "none"

\* Lines 515-520: without files main() returns; else the loop starts.
Main ==
    /\ pc = "main"
    /\ IF nfiles = 0 THEN pc' = "done" /\ fi' = fi ELSE pc' = "read" /\ fi' = 1
    /\ UNCHANGED <<nfiles, df, keys, ri, dl, observer_info, tmpfs, docs, calls, lastDoc, err>>
    /\ UNCHANGED harnessVars

\* The loop of main() goes to the next file, or ends.
ToNextFile ==
    IF fi < nfiles THEN pc' = "read" /\ fi' = fi + 1 ELSE pc' = "done" /\ fi' = fi

\* Lines 369-388: the file is read; an unreadable file and an empty DataFrame are
\* skipped.
ReadFile(pool) ==
    /\ pc = "read"
    /\ \E frame \in pool :
          IF ~frame.readable \/ frame.rows = <<>>
          THEN /\ ToNextFile
               /\ UNCHANGED <<df, calls>>
          ELSE /\ df' = frame
               /\ calls' = <<>>
               /\ pc' = "full"
               /\ fi' = fi
    /\ UNCHANGED <<nfiles, keys, ri, dl, observer_info, tmpfs, docs, lastDoc, err>>
    /\ UNCHANGED harnessVars

\* Lines 399-418 and generate_pdf_report in matrix mode: the document is written
\* unless the planner or the build raises, which the except clause reports.
FullReport ==
    /\ pc = "full"
    /\ \E build_ok \in BOOLEAN :
          LET table == MatrixTable(df)
              plan == MatrixGeometry(CellLengths(table))
              path == FullReportPath(fi)
              built == plan.err = "none" /\ build_ok
          IN  /\ lastDoc' = [kind |-> "full", file |-> fi, row |-> 0, path |-> path,
                             table |-> table, plan |-> plan, footer |-> NoDoc,
                             built |-> built]
              /\ docs' = IF built THEN docs \cup {path} ELSE docs
    /\ pc' = "setup"
    /\ UNCHANGED <<nfiles, fi, df, keys, ri, dl, observer_info, tmpfs, calls, err>>
    /\ UNCHANGED harnessVars

\* Lines 423-445: c.lower() raises AttributeError for a label that is no str, and
\* nothing catches it; else the footer and naming columns are found.
Setup ==
    /\ pc = "setup"
    /\ IF ~df.strLabels
       THEN /\ pc' = "crashed"
            /\ err' = "AttributeError in cols_map"
            /\ UNCHANGED <<keys, ri>>
       ELSE /\ keys' = FindKeys(df.columns)
            /\ ri' = 1
            /\ pc' = "row"
            /\ err' = err
    /\ UNCHANGED <<nfiles, fi, df, dl, observer_info, tmpfs, docs, calls, lastDoc>>
    /\ UNCHANGED harnessVars

\* Lines 448-458 and 39-59: the footer values, and the entry of
\* download_signature_from_gdrive, which returns None at once for a reference it
\* cannot use.
RowStart ==
    /\ pc = "row"
    /\ LET v == FooterValues(df, ri, keys)
       IN  observer_info' = [name |-> v.name, venue |-> v.venue, date |-> v.date,
                             mobile |-> v.mobile, signature_path |-> NoPath]
    /\ IF NoRequest(SigUrlText(df, ri, keys))
       THEN /\ dl' = NoDownload
            /\ pc' = "table"
       ELSE /\ dl' = [attempt |-> 1, tmp_path |-> NoPath, log |-> <<>>]
            /\ pc' = "download"
    /\ UNCHANGED <<nfiles, fi, df, keys, ri, tmpfs, docs, calls, lastDoc, err>>
    /\ UNCHANGED harnessVars

\* Lines 88-89: the exception of an attempt is swallowed, its temporary file
\* stays, and the loop goes on with the next variant.
AttemptRaises(f, r) ==
    /\ tmpfs' = tmpfs \cup {TempFile(f, r, AttemptTags[dl.attempt], <<>>)}
    /\ dl' = [dl EXCEPT !.attempt = @ + 1, !.log = Append(@, Raised)]
    /\ IF dl.attempt = NumVariants
       THEN pc' = "table" /\ observer_info' = [observer_info EXCEPT !.signature_path = dl.tmp_path]
       ELSE pc' = "download" /\ observer_info' = observer_info
    /\ err' = err

\* Lines 60-91: one variant is requested.  A valid image is written to the
\* temporary file, which is returned; for another body the file is removed and
\* the next variant is tried; after the last variant tmp_path (None) is returned.
DownloadAttempt ==
    /\ pc = "download"
    /\ \E first \in Requests : \E second \in Requests :
          LET end == AttemptEnd(first, second)
              tmp == TempFile(fi, ri, AttemptTags[dl.attempt], end.bytes)
          IN  IF end.raised THEN AttemptRaises(fi, ri)
              ELSE IF IsValidImage(end.bytes)
              THEN /\ tmpfs' = tmpfs \cup {tmp}
                   /\ dl' = [dl EXCEPT !.tmp_path = tmp, !.log = Append(@, end)]
                   /\ observer_info' = [observer_info EXCEPT !.signature_path = tmp]
                   /\ pc' = "table"
                   /\ err' = err
              ELSE /\ tmpfs' = tmpfs
                   /\ dl' = [dl EXCEPT !.attempt = @ + 1, !.log = Append(@, end)]
                   /\ observer_info' = observer_info
                   /\ pc' = IF dl.attempt = NumVariants THEN "table" ELSE "download"
                   /\ err' = err
    /\ UNCHANGED <<nfiles, fi, df, keys, ri, docs, calls, lastDoc>>
    /\ UNCHANGED harnessVars

\* Line 495: f"Record_{idx+1}" raises TypeError when the index label is no
\* number, and nothing catches it.
RecordNameRaises ==
    /\ pc = "table"
    /\ NeedsRecordName(df, ri, keys)
    /\ ~df.intIndex
    /\ pc' = "crashed"
    /\ err' = "TypeError in name_parts"
    /\ UNCHANGED <<nfiles, fi, df, keys, ri, dl, observer_info, tmpfs, docs, calls, lastDoc>>
    /\ UNCHANGED harnessVars

\* Lines 468-501 and generate_pdf_report for an individual record: the table, the
\* file name, the footer (which converts the signature into a second temporary
\* file) and the build; an exception of the build is reported and swallowed.
GenerateRecord ==
    /\ pc = "table"
    /\ ~(NeedsRecordName(df, ri, keys) /\ ~df.intIndex)
    /\ \E build_ok \in BOOLEAN : \E pil \in PilOutcomes :
          LET path == RecordPath(df, ri, keys, fi)
              sig_path == observer_info.signature_path
              png == TempFile(fi, ri, "png", IF pil = "converted" THEN PngMagic ELSE <<>>)
              made_png == sig_path # NoPath /\ pil \in {"converted", "save_raises"}
          IN  /\ sig_path = NoPath => pil = "converted"   \* PIL only sees a downloaded file
              /\ tmpfs' = IF made_png THEN tmpfs \cup {png} ELSE tmpfs
              /\ lastDoc' = [kind |-> "record", file |-> fi, row |-> ri, path |-> path,
                             table |-> TableData(df, ri, keys), plan |-> NoPlan,
                             footer |-> Footer(observer_info, pil, png),
                             built |-> build_ok]
              /\ docs' = IF build_ok THEN docs \cup {path} ELSE docs
              /\ calls' = Append(calls, [row |-> ri, path |-> path, built |-> build_ok])
    /\ dl' = NoDownload      \* the locals of the download are gone
    /\ pc' = "row_done"
    /\ UNCHANGED <<nfiles, fi, df, keys, ri, observer_info, err>>
    /\ UNCHANGED harnessVars

\* The loop over the rows goes to the next row; after the last row the loop of
\* main() goes on.
NextRow ==
    /\ pc = "row_done"
    /\ IF ri < Len(df.rows)
       THEN pc' = "row" /\ ri' = ri + 1 /\ fi' = fi
       ELSE ToNextFile /\ ri' = ri
    /\ UNCHANGED <<nfiles, df, keys, dl, observer_info, tmpfs, docs, calls, lastDoc, err>>
    /\ UNCHANGED harnessVars


-----------------------------------------------------------------------------
(* The inputs and the specifications *)

\* The values a cell of a column may hold.
SigValues == {NanText, <<"h", "t", "t", "p", ":", "/", "/", "x", "/", "d", "/", "A", "b", "1">>, <<"h", "t", "t", "p", ":", "/", "/", "x">>}

NameValues == {NanText, <<"A", " ", "B">>, <<"A", "_", "B">>}

OtherValues == {<<"x">>}

\* The values of the cells of the batch, by column.
BatchValues(col) ==
    IF Contains(<<"s", "i", "g", "n", "a", "t", "u", "r", "e">>, Lower(col)) THEN SigValues
    ELSE IF IsNamingCol(col) THEN NameValues
    ELSE OtherValues

\* The rows a DataFrame with these columns may hold, with the values V(col).
RowsOf(cols, V(_)) ==
    {row \in [1..Len(cols) -> UNION {V(cols[i]) : i \in 1..Len(cols)}] :
        \A i \in 1..Len(cols) : row[i] \in V(cols[i])}

\* The files with these columns: unreadable, or a DataFrame of at most maxRows
\* rows.
FramesOf(colLists, V(_), maxRows, labelKinds, indexKinds) ==
    {Unreadable}
    \cup UNION {{Frame(cols, rows, sl, ii) :
                    rows \in UNION {[1..n -> RowsOf(cols, V)] : n \in 0..maxRows},
                    sl \in labelKinds, ii \in indexKinds} :
                 cols \in colLists}

\* The column lists of the batch: no naming column, and a naming column.
BatchColumns == {<<<<"Q", "1">>>>, <<<<"N", "a", "m", "e">>, <<"Q", "1">>>>}

\* The column list with a signature column.
SignatureColumns == {<<<<"S", "i", "g", "n", "a", "t", "u", "r", "e">>>>}

\* The files of the batch: every kind of label and index without a signature
\* column, and the files with a signature column in their plain kind.
BatchFrames ==
    FramesOf(BatchColumns, BatchValues, MaxFrameRows, BOOLEAN, BOOLEAN)
    \cup FramesOf(SignatureColumns, BatchValues, MaxSigRows, {TRUE}, {TRUE})

\* The files with a signature column.
SignatureFrames == FramesOf(SignatureColumns, BatchValues, MaxSigRows, {TRUE}, BOOLEAN)

ReadBatchFile == ReadFile(BatchFrames)

Init ==
    /\ ProgInit(MaxFiles)
    /\ clean = Idle
    /\ layout = Idle

Next ==
    \/ Main
    \/ ReadBatchFile
    \/ FullReport
    \/ Setup
    \/ RowStart
    \/ DownloadAttempt
    \/ RecordNameRaises
    \/ GenerateRecord
    \/ NextRow

Spec == Init /\ [][Next]_vars

\* One input file with a signature column.
ReadSignatureFile == ReadFile(SignatureFrames)

InitSignature ==
    /\ ProgInit(1)
    /\ clean = Idle
    /\ layout = Idle

NextSignature ==
    \/ Main
    \/ ReadSignatureFile
    \/ FullReport
    \/ Setup
    \/ RowStart
    \/ DownloadAttempt
    \/ RecordNameRaises
    \/ GenerateRecord
    \/ NextRow

SpecSignature == InitSignature /\ [][NextSignature]_vars


-----------------------------------------------------------------------------
(* One file of one record, with the columns and values that the footer, the
   certification override and the missing-value marker are about *)

MaxRecCols == 2

\* Column labels: two that differ only in case, a candidate name, a venue, a
\* mobile number, a numbered certification question, a certification question
\* that holds the word "name", and a plain question.
RecordLabels ==
    {<<"N", "a", "m", "e">>, <<"N", "A", "M", "E">>, <<"C", "a", "n", "d", "i", "d", "a", "t", "e", " ", "N", "a", "m", "e">>, <<"V", "e", "n", "u", "e">>, <<"M", "o", "b", "i", "l", "e">>,
     <<"1", ".", " ", "I", " ", "h", "e", "r", "e", "b", "y", " ", "c", "e", "r", "t", "i", "f", "y">>, <<"I", " ", "h", "e", "r", "e", "b", "y", " ", "c", "e", "r", "t", "i", "f", "y", " ", "n", "a", "m", "e">>, <<"Q", "1">>}

\* The lists of distinct labels.
RecordColumns ==
    {cols \in SeqsUpTo(RecordLabels, MaxRecCols) :
        cols # <<>> /\ \A i, j \in 1..Len(cols) : i # j => cols[i] # cols[j]}

\* The values of a cell: the missing-value marker in two spellings, and a text
\* with a markup character.
RecordValues(col) == {NanText, <<"N", "A", "N">>, <<"a", "&", "b">>}

RecordFrames == FramesOf(RecordColumns, RecordValues, 1, {TRUE}, {TRUE})

ReadRecordFile == ReadFile(RecordFrames)

InitRecord ==
    /\ ProgInit(1)
    /\ clean = Idle
    /\ layout = Idle

NextRecord ==
    \/ Main
    \/ ReadRecordFile
    \/ FullReport
    \/ Setup
    \/ RowStart
    \/ GenerateRecord
    \/ NextRow

SpecRecord == InitRecord /\ [][NextRecord]_vars


-----------------------------------------------------------------------------
(* The claims about the batch *)

\* C1 as stated: a failure while one document is produced (its footer data, its
\* table cells, its file name, its build) never aborts the batch, i.e. no
\* exception leaves the loops of convert_file_to_pdf and main.
C1_Original == pc # "crashed"

\* The last row of the file is finished, the full report and every individual
\* generation call having succeeded.
FileDoneWithoutFailure ==
    /\ pc = "row_done"
    /\ ri = Len(df.rows)
    /\ FullReportPath(fi) \in docs
    /\ \A i \in 1..Len(calls) : calls[i].built

\* C2 as stated: for a readable, non-empty dataset of N rows in which no
\* generation call fails there are N individual generation calls, and they write
\* to N pairwise distinct paths, so that N individual documents exist.
C2_Original ==
    FileDoneWithoutFailure =>
        /\ Len(calls) = Len(df.rows)
        /\ \A i, j \in 1..Len(calls) : i # j => calls[i].path # calls[j].path
        /\ Cardinality({d \in docs : d.folder = "Individual_Records" /\ d.stem = FileStem(fi)})
              = Len(df.rows)

-----------------------------------------------------------------------------
(* The claims about the signature *)

\* The signatures the claim names: JPEG FF D8, PNG 89 50 4E 47, "GIF87a", "GIF89a".
StartsWithImageSignature(b) ==
    \/ (Len(b) >= 2 /\ b[1] = 255 /\ b[2] = 216)
    \/ (Len(b) >= 4 /\ b[1] = 137 /\ b[2] = 80 /\ b[3] = 78 /\ b[4] = 71)
    \/ (Len(b) >= 6 /\ b[1] = 71 /\ b[2] = 73 /\ b[3] = 70 /\ b[4] = 56
                    /\ b[5] \in {55, 57} /\ b[6] = 97)

\* download_signature_from_gdrive has returned to convert_file_to_pdf.
DownloadReturned ==
    dl.attempt = 0 \/ dl.tmp_path # NoPath \/ dl.attempt > NumVariants

\* C8: the fetcher never raises to its caller; it tries the variants in order and
\* stops at the first attempt that ends with an image body; it returns the path of
\* an existing file that holds exactly that body, or None when no attempt ends
\* with an image (an attempt ends with the body of the confirmed request when the
\* first body holds a confirmation token).  With None the footer shows a blank
\* underline for the signature, and the document of the row is written whenever
\* its build succeeds.
C8_Fetcher ==
    /\ pc = "crashed" => DownloadReturned
    /\ Len(dl.log) <= NumVariants
    /\ \A i \in 1..(Len(dl.log) - 1) :
          dl.log[i].raised \/ ~StartsWithImageSignature(dl.log[i].bytes)
    /\ pc = "table" =>
          LET n == Len(dl.log)
              result == observer_info.signature_path
              ok == n > 0 /\ ~dl.log[n].raised /\ StartsWithImageSignature(dl.log[n].bytes)
          IN  /\ ok => /\ result \in tmpfs
                       /\ result.bytes = dl.log[n].bytes
              /\ ~ok => /\ result = NoPath
                        /\ n \in {0, NumVariants}
    /\ (pc = "row_done" /\ observer_info.signature_path = NoPath) =>
          /\ lastDoc.kind = "record"
          /\ lastDoc.file = fi /\ lastDoc.row = ri
          /\ lastDoc.footer.signature = BlankUnderline
          /\ lastDoc.built => lastDoc.path \in docs

\* Every variant was requested and failed, at least one with an exception, and
\* the document of the row was written with a blank signature line.
C8_Witness ==
    /\ pc = "row_done"
    /\ observer_info.signature_path = NoPath
    /\ \E t \in tmpfs : t.file = fi /\ t.row = ri
    /\ lastDoc.built
    /\ lastDoc.footer.signature = BlankUnderline

\* C9 as stated: once the processing of a row has finished, no temporary file
\* created for that row exists any more.
C9_Original ==
    pc = "row_done" => ~\E t \in tmpfs : t.file = fi /\ t.row = ri

-----------------------------------------------------------------------------
(* The claims about the content of an individual record *)

\* convert_file_to_pdf has found the footer columns of the file it read.
KeysFound == pc \in {"row", "download", "table", "row_done"}

\* The columns, in column order, whose lower-cased label contains the keyword.
ColumnsWith(keyword) ==
    SelectSeq(df.columns, LAMBDA col : Contains(keyword, Lower(col)))

\* The column the claim describes for a keyword list: of the earliest keyword
\* that any column contains, the first column in column order; None without any.
ClaimedKey(keywords) ==
    LET present == {i \in 1..Len(keywords) : ColumnsWith(keywords[i]) # <<>>}
    IN  IF present = {} THEN None
        ELSE Head(ColumnsWith(keywords[CHOOSE i \in present : \A j \in present : i <= j]))

\* C7 as stated: find_key returns the first column, in column order, that
\* contains the earliest keyword any column contains, and not-found exactly when
\* no column contains a keyword; the footer value of a not-found field is empty
\* and the record is generated.
C7_Original ==
    /\ KeysFound =>
          /\ keys.col_name = ClaimedKey(NameKeywords)
          /\ keys.col_venue = ClaimedKey(VenueKeywords)
          /\ keys.col_date = ClaimedKey(DateKeywords)
          /\ keys.col_signature = ClaimedKey(SignatureKeywords)
          /\ keys.col_mobile = ClaimedKey(MobileKeywords)
    /\ (pc = "row_done" /\ lastDoc.kind = "record") =>
          /\ keys.col_name = None => lastDoc.footer.name.text = <<>>
          /\ keys.col_venue = None => lastDoc.footer.venue.text = <<>>
          /\ keys.col_mobile = None => lastDoc.footer.mobile.text = <<>>
          /\ keys.col_date = None => lastDoc.footer.date = <<>>

\* The columns whose cleaned label contains the certification phrase.
CertifyColumns ==
    {c \in 1..Len(df.columns) : Contains(CertifyPhrase, clean_particulars(df.columns[c]))}

\* C4 as stated: for every column whose cleaned label contains the certification
\* phrase, whatever its raw value, the individual record of the row shows a row
\* for that label whose value is exactly "Yes" (in a record that was built).
C4_Original ==
    (pc = "row_done" /\ lastDoc.kind = "record" /\ lastDoc.built) =>
        \A c \in CertifyColumns :
            \E i \in 1..Len(lastDoc.table) :
                /\ lastDoc.table[i].particular = get_wrapped_text(clean_particulars(df.columns[c]))
                /\ lastDoc.table[i].response = <<"Y", "e", "s">>

\* A raw value as the claim renders it: the marker alone becomes the empty
\* string, any other value stays, with or without the markup escaped.
RenderedAsClaimed(cell, raw) ==
    IF IsNan(raw) THEN cell = <<>> ELSE cell \in {raw, get_wrapped_text(raw)}

\* C6 as stated: a raw value that is a case variant of "nan" is rendered as the
\* empty string in the response cells of the individual record, in the footer
\* fields name, venue, date and mobile, and in the data cells of the full report;
\* any other value is passed through apart from markup escaping.
C6_Original ==
    /\ (pc = "row_done" /\ lastDoc.kind = "record" /\ lastDoc.built) =>
          /\ \A c \in 1..Len(df.columns) :
                (df.columns[c] \notin FooterCols(keys) /\ c \notin CertifyColumns) =>
                    \E i \in 1..Len(lastDoc.table) :
                        /\ lastDoc.table[i].particular
                              = get_wrapped_text(clean_particulars(df.columns[c]))
                        /\ RenderedAsClaimed(lastDoc.table[i].response, df.rows[ri][c])
          /\ keys.col_name # None =>
                RenderedAsClaimed(lastDoc.footer.name.text, Value(df, ri, keys.col_name))
          /\ keys.col_venue # None =>
                RenderedAsClaimed(lastDoc.footer.venue.text, Value(df, ri, keys.col_venue))
          /\ keys.col_date # None =>
                RenderedAsClaimed(lastDoc.footer.date, Value(df, ri, keys.col_date))
          /\ keys.col_mobile # None =>
                RenderedAsClaimed(lastDoc.footer.mobile.text, Value(df, ri, keys.col_mobile))
    /\ (pc = "setup" /\ lastDoc.kind = "full" /\ lastDoc.built) =>
          \A c \in 1..Len(df.columns) : \A i \in 1..Len(df.rows) :
              RenderedAsClaimed(lastDoc.table[c + 1][i + 2], df.rows[i][c])

-----------------------------------------------------------------------------
(* The claim about the markup of the texts of an individual record *)

\* One character as the renderer must receive it.
EscapedChar(c) ==
    IF c = "&" THEN <<"&", "a", "m", "p", ";">>
    ELSE IF c = "<" THEN <<"&", "l", "t", ";">>
    ELSE IF c = ">" THEN <<"&", "g", "t", ";">>
    ELSE <<c>>

RECURSIVE EscapedOnce(_)
\* A text with every '&', '<' and '>' of the input replaced by its entity, once:
\* what replacing '&' first and then '<' and '>' gives.
EscapedOnce(s) ==
    IF s = <<>> THEN <<>> ELSE EscapedChar(Head(s)) \o EscapedOnce(Tail(s))

\* The columns an individual record shows in its table, in column order.
ShownColumns == SelectSeq(df.columns, LAMBDA col : col \notin FooterCols(keys))

\* C11 as stated: in an individual record every text taken from the data and
\* handed to the markup renderer is escaped once, '&' first: the label and the
\* response cells of the table, and the footer values name, venue, mobile and
\* date.
C11_Original ==
    (pc = "row_done" /\ lastDoc.kind = "record" /\ lastDoc.built) =>
        /\ Len(lastDoc.table) = Len(ShownColumns)
        /\ \A i \in 1..Len(lastDoc.table) :
              /\ lastDoc.table[i].particular
                    = EscapedOnce(clean_particulars(ShownColumns[i]))
              /\ lastDoc.table[i].response
                    = EscapedOnce(ResponseOf(df, ri, ShownColumns[i]))
        /\ lastDoc.footer.name.text = EscapedOnce(observer_info.name)
        /\ lastDoc.footer.venue.text = EscapedOnce(observer_info.venue)
        /\ lastDoc.footer.mobile.text = EscapedOnce(observer_info.mobile)
        /\ lastDoc.footer.date = EscapedOnce(observer_info.date)

\* The table cells alone are escaped as C11 says.
C11_TableCells ==
    (pc = "row_done" /\ lastDoc.kind = "record" /\ lastDoc.built) =>
        /\ Len(lastDoc.table) = Len(ShownColumns)
        /\ \A i \in 1..Len(lastDoc.table) :
              /\ lastDoc.table[i].particular
                    = EscapedOnce(clean_particulars(ShownColumns[i]))
              /\ lastDoc.table[i].response
                    = EscapedOnce(ResponseOf(df, ri, ShownColumns[i]))

====
